---- MODULE Spec2Model ----
(***************************************************************************)
(* A model of graypy's GELF handler (src/graypy/handler.py):               *)
(*   - GELFHandler.send and ChunkedGELF: the chunked datagram transport,   *)
(*     called by several threads on one handler;                           *)
(*   - ChunkedGELF used directly: construction and repeated iteration;     *)
(*   - GELFHandler.make_message_dict and convert_level_to_syslog.          *)
(* Byte strings are sequences of integers 0..255, attribute names are      *)
(* strings, Python 2 integer division is floor division (\div).            *)
(***************************************************************************)
EXTENDS Integers, Sequences, FiniteSets, TLC

(***************************************************************************)
(* Bounds of the model.                                                    *)
(***************************************************************************)
\* one caller: payloads are byte strings of length 0..MaxLen
MaxLen == 5
\* two concurrent callers: payloads of length 0..ConcMaxLen
ConcMaxLen == 2
\* chunk sizes are drawn from -MaxNegChunk..MaxChunk and the two presets
MaxChunk == 3
MaxNegChunk == 2
\* a ChunkedGELF instance used directly is iterated to the end at most MaxRuns times
MaxRuns == 2
\* a record carries at most MaxExtras additional attributes
MaxExtras == 2

(***************************************************************************)
(* Program constants.                                                      *)
(***************************************************************************)
WAN_CHUNK == 1420
LAN_CHUNK == 8154

Threads == {"t1", "t2"}

Min(a, b) == IF a < b THEN a ELSE b

RECURSIVE SeqsUpTo(_, _)
\* all sequences over S of length 0..n
SeqsUpTo(S, n) ==
  IF n = 0 THEN {<<>>}
  ELSE LET shorter == SeqsUpTo(S, n - 1)
       IN shorter \cup {Append(q, b) : q \in {x \in shorter : Len(x) = n - 1}, b \in S}

\* the bytes payloads are made of
PayloadBytes == {0, 255}
Payloads == SeqsUpTo(PayloadBytes, MaxLen)
ConcPayloads == SeqsUpTo(PayloadBytes, ConcMaxLen)
\* the chunk_size values a handler is built with
ChunkSizes == ((0 - MaxNegChunk)..MaxChunk) \cup {WAN_CHUNK, LAN_CHUNK}
\* the values random.randint(0, 0xFFFFFFFFFFFFFFFF) is drawn from
RandomIds == {0, 258}

(***************************************************************************)
(* struct.pack                                                             *)
(***************************************************************************)
\* struct.pack('>H', n) raises struct.error unless 0 <= n <= 0xFFFF
PackHOk(n) == n >= 0 /\ n <= 65535

\* struct.pack('>H', n): two bytes, big-endian
PackH(n) == <<n \div 256, n % 256>>

\* the inverse, struct.unpack('>H', b): used to read a header back
UnpackH(b) == b[1] * 256 + b[2]

RECURSIVE LittleEndian(_, _)
LittleEndian(r, n) ==
  IF n = 0 THEN <<>> ELSE <<r % 256>> \o LittleEndian(r \div 256, n - 1)

\* struct.pack('Q', r): eight bytes in native order (little-endian here)
PackQ(r) == LittleEndian(r, 8)

RECURSIVE Repeat(_, _)
\* Python's  bytes * n
Repeat(b, n) == IF n <= 0 THEN <<>> ELSE b \o Repeat(b, n - 1)

(***************************************************************************)
(* class ChunkedGELF                                                       *)
(***************************************************************************)
\* the magic prefix '\x1e\x0f' of encode
Magic == <<30, 15>>

\* (len(message) / size) + 1, the argument of struct.pack in __init__
PieceCount(message, size) == (Len(message) \div size) + 1

\* the exception ChunkedGELF.__init__ raises, or "none"
InitRaises(message, size) ==
  IF size = 0 THEN "ZeroDivisionError"
  ELSE IF ~PackHOk(PieceCount(message, size)) THEN "struct.error"
  ELSE "none"

\* the instance ChunkedGELF.__init__ builds, r being the random number drawn
ChunkedGELF(message, size, r) ==
  [message |-> message,
   size    |-> size,
   pieces  |-> PackH(PieceCount(message, size)),
   id      |-> Repeat(PackQ(r), 4)]

NoChunker == [message |-> <<>>, size |-> 1, pieces |-> <<>>, id |-> <<>>]

RECURSIVE Range(_, _, _)
\* Python's range(start, stop, step) for step # 0
Range(start, stop, step) ==
  IF (step > 0 /\ start < stop) \/ (step < 0 /\ start > stop)
  THEN <<start>> \o Range(start + step, stop, step)
  ELSE <<>>

\* Python's s[lo:hi] for 0 <= lo
Slice(s, lo, hi) == SubSeq(s, lo + 1, Min(hi, Len(s)))

\* a variant of message_chunks whose slices stop one byte early: message[i:i+size-1]
message_chunks_short(c) ==
  LET starts == Range(0, Len(c.message), c.size)
  IN [k \in 1..Len(starts) |-> Slice(c.message, starts[k], starts[k] + c.size - 1)]

\* ChunkedGELF.message_chunks: the slices the generator yields, in order
message_chunks(c) ==
  LET starts == Range(0, Len(c.message), c.size)
  IN [k \in 1..Len(starts) |-> Slice(c.message, starts[k], starts[k] + c.size)]

\* a variant of encode that numbers the chunks from 1
encode_from_one(c, sequence, chunk) ==
  Magic \o c.id \o PackH(sequence + 1) \o c.pieces \o chunk

\* ChunkedGELF.encode
encode(c, sequence, chunk) ==
  Magic \o c.id \o PackH(sequence) \o c.pieces \o chunk

(***************************************************************************)
(* State                                                                   *)
(***************************************************************************)
VARIABLES
  \* GELFHandler.send called by threads on one handler
  chunk_size,   \* GELFHandler.chunk_size
  pc,           \* per thread: "idle", "iter" (inside the for loop), "done", "raised"
  payload,      \* per thread: the argument s of its send call
  chunker,      \* per thread: the ChunkedGELF instance of its send call
  gen,          \* per thread: how many chunks the instance's generator has yielded
  err,          \* per thread: the exception that ended its send call, or "none"
  dispatched,   \* the calls of DatagramHandler.send, in order: [by, data]
  \* a ChunkedGELF instance used directly
  cstate,       \* "none", "built", "raised" (__init__ raised)
  inst,         \* the instance
  it_live,      \* whether a generator of the instance is being consumed
  it_pos,       \* how many chunks that generator has yielded
  it_out,       \* the chunks that generator has yielded
  runs,         \* the outputs of the generators consumed to the end, in order
  partial,      \* whether a generator was abandoned after yielding and before its end
  \* GELFHandler.make_message_dict
  mphase,       \* "none", "record" (a record to be handled), "built"
  record,       \* the LogRecord's __dict__: attribute name -> value
  message_dict  \* the dict make_message_dict returned

sendVars == <<chunk_size, pc, payload, chunker, gen, err, dispatched>>
chunkerVars == <<cstate, inst, it_live, it_pos, it_out, runs, partial>>
msgVars == <<mphase, record, message_dict>>
vars == <<sendVars, chunkerVars, msgVars>>

SendIdle ==
  /\ chunk_size = WAN_CHUNK
  /\ pc = [t \in Threads |-> "idle"]
  /\ payload = [t \in Threads |-> <<>>]
  /\ chunker = [t \in Threads |-> NoChunker]
  /\ gen = [t \in Threads |-> 0]
  /\ err = [t \in Threads |-> "none"]
  /\ dispatched = <<>>

ChunkerIdle ==
  /\ cstate = "none"
  /\ inst = NoChunker
  /\ it_live = FALSE
  /\ it_pos = 0
  /\ it_out = <<>>
  /\ runs = <<>>
  /\ partial = FALSE

NoFields == [k \in {} |-> k]

MsgIdle ==
  /\ mphase = "none"
  /\ record = NoFields
  /\ message_dict = NoFields

(***************************************************************************)
(* GELFHandler.send                                                        *)
(***************************************************************************)
\* GELFHandler.__init__ stores chunk_size as given (default WAN_CHUNK), unchecked
SendInit ==
  /\ chunk_size \in ChunkSizes
  /\ pc = [t \in Threads |-> "idle"]
  /\ payload = [t \in Threads |-> <<>>]
  /\ chunker = [t \in Threads |-> NoChunker]
  /\ gen = [t \in Threads |-> 0]
  /\ err = [t \in Threads |-> "none"]
  /\ dispatched = <<>>
  /\ ChunkerIdle
  /\ MsgIdle

\* a variant of the test of send: len(s) <= self.chunk_size
send_unchunked_le(s, size) == Len(s) <= size

\* the test of send that picks the single datagram: len(s) < self.chunk_size
send_unchunked(s, size) == Len(s) < size

\* a variant of __iter__ that hands out one generator kept on the instance, which
\* goes on from where it was left
iter_start_resume(yielded_before) == yielded_before

\* ChunkedGELF.__iter__: each call builds a new generator over message_chunks(),
\* which starts at the first chunk whatever an earlier generator has yielded
iter_start(yielded_before) == 0

\* a variant of send that keeps the instance on the handler, shared by the threads
chunker_of_shared(t) == chunker[CHOOSE u \in Threads : pc[u] = "iter"]

\* the instance thread t iterates: the one its own send call built
chunker_of(t) == chunker[t]

\* DatagramHandler.send(self, data) called by thread t; the socket's sendto may raise
Dispatch(t, data, ok, next) ==
  /\ dispatched' = Append(dispatched, [by |-> t, data |-> data])
  /\ IF ok
     THEN pc' = [pc EXCEPT ![t] = next] /\ err' = err
     ELSE pc' = [pc EXCEPT ![t] = "raised"] /\ err' = [err EXCEPT ![t] = "socket.error"]

\* GELFHandler.send(s) by thread t, up to its single datagram or the start of its for loop
Send(t, S) ==
  /\ pc[t] = "idle"
  /\ \E s \in S, r \in RandomIds, ok \in BOOLEAN :
       /\ payload' = [payload EXCEPT ![t] = s]
       /\ IF send_unchunked(s, chunk_size)
          THEN /\ Dispatch(t, s, ok, "done")
               /\ UNCHANGED <<chunker, gen>>
          ELSE IF InitRaises(s, chunk_size) # "none"
          THEN /\ pc' = [pc EXCEPT ![t] = "raised"]
               /\ err' = [err EXCEPT ![t] = InitRaises(s, chunk_size)]
               /\ UNCHANGED <<chunker, gen, dispatched>>
          ELSE /\ chunker' = [chunker EXCEPT ![t] = ChunkedGELF(s, chunk_size, r)]
               /\ gen' = [gen EXCEPT ![t] = iter_start(0)]
               /\ pc' = [pc EXCEPT ![t] = "iter"]
               /\ UNCHANGED <<err, dispatched>>
  /\ UNCHANGED <<chunk_size, chunkerVars, msgVars>>

\* one round of the for loop of GELFHandler.send in thread t
NextChunk(t) ==
  /\ pc[t] = "iter"
  /\ LET c == chunker_of(t)
         chunks == message_chunks(c)
     IN IF gen[t] < Len(chunks)
        THEN \E ok \in BOOLEAN :
               /\ Dispatch(t, encode(c, gen[t], chunks[gen[t] + 1]), ok, "iter")
               /\ gen' = [gen EXCEPT ![t] = gen[t] + 1]
        ELSE /\ pc' = [pc EXCEPT ![t] = "done"]
             /\ UNCHANGED <<gen, err, dispatched>>
  /\ UNCHANGED <<chunk_size, payload, chunker, chunkerVars, msgVars>>

\* one caller
SendNext == Send("t1", Payloads) \/ NextChunk("t1")
SendSpec == SendInit /\ [][SendNext]_vars

\* several callers, their steps interleaved
ConcNext == \E t \in Threads : Send(t, ConcPayloads) \/ NextChunk(t)
ConcSpec == SendInit /\ [][ConcNext]_vars

(***************************************************************************)
(* ChunkedGELF used directly                                               *)
(***************************************************************************)
ChunkerInit == SendIdle /\ ChunkerIdle /\ MsgIdle

\* ChunkedGELF(message, size)
New ==
  /\ cstate = "none"
  /\ \E message \in Payloads, size \in ChunkSizes, r \in RandomIds :
       IF InitRaises(message, size) # "none"
       THEN cstate' = "raised" /\ inst' = inst
       ELSE cstate' = "built" /\ inst' = ChunkedGELF(message, size, r)
  /\ UNCHANGED <<it_live, it_pos, it_out, runs, partial, sendVars, msgVars>>

\* iter(instance): a new generator; the one being consumed, if any, is dropped
Iter ==
  /\ cstate = "built"
  /\ Len(runs) < MaxRuns
  /\ it_live' = TRUE
  /\ it_pos' = iter_start(it_pos)
  /\ it_out' = <<>>
  /\ partial' = (partial \/ (it_live /\ it_pos > 0))
  /\ UNCHANGED <<cstate, inst, runs, sendVars, msgVars>>

\* next(generator): the next encoded chunk, or StopIteration
NextItem ==
  /\ it_live
  /\ LET chunks == message_chunks(inst)
     IN IF it_pos < Len(chunks)
        THEN /\ it_out' = Append(it_out, encode(inst, it_pos, chunks[it_pos + 1]))
             /\ it_pos' = it_pos + 1
             /\ UNCHANGED <<it_live, runs>>
        ELSE /\ runs' = Append(runs, it_out)
             /\ it_live' = FALSE
             /\ UNCHANGED <<it_pos, it_out>>
  /\ UNCHANGED <<cstate, inst, partial, sendVars, msgVars>>

ChunkerNext == New \/ Iter \/ NextItem
ChunkerSpec == ChunkerInit /\ [][ChunkerNext]_vars

(***************************************************************************)
(* GELFHandler.make_message_dict                                           *)
(***************************************************************************)
\* the levels of the logging module
CRITICAL == 50
ERROR == 40
WARNING == 30
INFO == 20
DEBUG == 10

\* GELFHandler.skip_list
skip_list ==
  {"args", "asctime", "created", "exc_info", "exc_text",
   "filename", "funcName", "id", "levelname", "levelno", "lineno",
   "module", "msecs", "msecs", "message", "msg", "name", "pathname",
   "process", "processName", "relativeCreated", "thread", "threadName"}

\* a variant of convert_level_to_syslog without the level as default: .get(level, 7)
convert_level_default_debug(level) ==
  CASE level = CRITICAL -> 2
    [] level = ERROR -> 3
    [] level = WARNING -> 4
    [] level = INFO -> 6
    [] OTHER -> 7

\* GELFHandler.convert_level_to_syslog: a dict lookup with the level as default
convert_level_to_syslog(level) ==
  CASE level = CRITICAL -> 2
    [] level = ERROR -> 3
    [] level = WARNING -> 4
    [] level = INFO -> 6
    [] level = DEBUG -> 7
    [] OTHER -> level

\* GELFHandler.get_full_message: the formatted traceback, or ''
get_full_message(exc_info) == IF exc_info # "None" THEN "Traceback" ELSE ""

\* record.getMessage(): msg % args, the record's args being empty
getMessage(rec) == rec["msg"]

\* d[key] = value
Put(dict, key, value) == (key :> value) @@ dict

\* a variant of the test of the loop that only looks at the skip-list
promoted_not_skipped(key) == key \notin skip_list

\* the test of the loop: not key in self.skip_list and not key[0] == '_'
\* (attribute names are not empty)
promoted(key) == key \notin skip_list /\ ~(SubSeq(key, 1, 1) = "_")

RECURSIVE add_fields(_, _, _)
\* the loop over record.__dict__, keys being those still to visit
add_fields(dict, rec, keys) ==
  IF keys = {} THEN dict
  ELSE LET key == CHOOSE k \in keys : TRUE
       IN add_fields(IF promoted(key) THEN Put(dict, "_" \o key, rec[key]) ELSE dict,
                     rec, keys \ {key})

make_message_dict(rec) ==
  LET d0 == ("version" :> "1.0")
            @@ ("host" :> "hostname")
            @@ ("short_message" :> getMessage(rec))
            @@ ("full_message" :> get_full_message(rec["exc_info"]))
            @@ ("timestamp" :> rec["created"])
            @@ ("level" :> convert_level_to_syslog(rec["levelno"]))
            @@ ("facility" :> rec["name"])
            @@ ("file" :> rec["pathname"])
            @@ ("line" :> rec["lineno"])
            @@ ("_function" :> rec["funcName"])
            @@ ("_pid" :> rec["process"])
            @@ ("_thread_name" :> rec["threadName"])
      d1 == IF "processName" \in DOMAIN rec
            THEN Put(d0, "_process_name", rec["processName"])
            ELSE d0
  IN add_fields(d1, rec, DOMAIN rec)

\* the values attributes take
Vals == {"a", "b"}
\* the level numbers records carry: those of the logging module and others
Levels == {0, 2, DEBUG, INFO, 25, WARNING, ERROR, CRITICAL}
\* the names of the attributes a record may carry besides the LogRecord's own
ExtraNames ==
  {"foo", "id", "message", "_internal", "_foo",
   "function", "pid", "thread_name", "process_name"}

\* the attributes logging.LogRecord sets on every record
BaseRecord(levelno, exc_info, funcName, process, threadName) ==
  ("name" :> "svc.storage") @@ ("msg" :> "disk full") @@ ("args" :> "()")
  @@ ("levelname" :> "Level") @@ ("levelno" :> levelno)
  @@ ("pathname" :> "/app/storage.py") @@ ("filename" :> "storage.py")
  @@ ("module" :> "storage") @@ ("exc_info" :> exc_info) @@ ("exc_text" :> "None")
  @@ ("lineno" :> 42) @@ ("funcName" :> funcName) @@ ("created" :> "1.5")
  @@ ("msecs" :> "500.0") @@ ("relativeCreated" :> "10.0") @@ ("thread" :> "1")
  @@ ("threadName" :> threadName) @@ ("process" :> process)

Records ==
  {BaseRecord(lv, ex, fn, pr, th) @@ pn @@ extra :
     lv \in Levels, ex \in {"None", "exc"}, fn \in Vals, pr \in Vals, th \in Vals,
     pn \in {NoFields} \cup {("processName" :> v) : v \in Vals},
     extra \in UNION {[E -> Vals] : E \in {X \in SUBSET ExtraNames : Cardinality(X) <= MaxExtras}}}

MessageInit ==
  /\ SendIdle /\ ChunkerIdle
  /\ mphase = "record"
  /\ record \in Records
  /\ message_dict = NoFields

\* make_message_dict(record)
Build ==
  /\ mphase = "record"
  /\ message_dict' = make_message_dict(record)
  /\ mphase' = "built"
  /\ UNCHANGED <<record, sendVars, chunkerVars>>

MessageNext == Build
MessageSpec == MessageInit /\ [][MessageNext]_vars

(***************************************************************************)
(* Reading datagrams back.  A chunk datagram is                            *)
(*   magic (2 bytes) || id (32) || sequence (2, big-endian) ||             *)
(*   pieces (2, big-endian) || slice                                       *)
(***************************************************************************)
IsFramed(d) == Len(d) >= 38 /\ SubSeq(d, 1, 2) = <<30, 15>>
dg_id(d) == SubSeq(d, 3, 34)
dg_seq(d) == UnpackH(SubSeq(d, 35, 36))
dg_pieces(d) == UnpackH(SubSeq(d, 37, 38))
dg_body(d) == SubSeq(d, 39, Len(d))

\* the datagrams thread t handed to DatagramHandler.send, in order
SentBy(t) ==
  LET Mine(e) == e.by = t
      mine == SelectSeq(dispatched, Mine)
  IN [k \in 1..Len(mine) |-> mine[k].data]

RECURSIVE ConcatBodies(_)
ConcatBodies(ds) ==
  IF Len(ds) = 0 THEN <<>> ELSE dg_body(Head(ds)) \o ConcatBodies(Tail(ds))

\* ceil(a / b) for b > 0
Ceil(a, b) == (a + b - 1) \div b

\* message[i*size : i*size+size], i counted from 0
SliceAt(message, size, i) == SubSeq(message, i * size + 1, Min(i * size + size, Len(message)))

(***************************************************************************)
(* Claims about send                                                       *)
(***************************************************************************)
\* C1: a send call with len(payload) < chunk_size hands over exactly one datagram,
\* the payload itself with no header; a call with len(payload) >= chunk_size hands
\* over no raw payload, only the framed chunks of a ChunkedGELF over
\* (payload, chunk_size), in their order.
C1_SingleOrChunked ==
  \A t \in Threads : pc[t] # "idle" =>
    LET ds == SentBy(t) IN
    IF Len(payload[t]) < chunk_size
    THEN ds = <<payload[t]>>
    ELSE \A k \in 1..Len(ds) :
           /\ IsFramed(ds[k])
           /\ ds[k] # payload[t]
           /\ \E r \in RandomIds :
                LET c == ChunkedGELF(payload[t], chunk_size, r)
                IN k <= Len(message_chunks(c))
                   /\ ds[k] = encode(c, k - 1, message_chunks(c)[k])

\* the boundary case: a payload of exactly chunk_size bytes went out as a framed chunk
C1_Witness ==
  /\ pc["t1"] = "done"
  /\ Len(payload["t1"]) = chunk_size
  /\ Len(SentBy("t1")) = 1
  /\ IsFramed(SentBy("t1")[1])

\* C4: the chunk datagrams of one chunked send call carry one message id and one
\* piece count, their sequence numbers in dispatch order are 0, 1, 2, ... without
\* gap or repeat, and a call that returns has dispatched each of the
\* ceil(len/size) chunks once.
C4_OneIdAscendingSequence ==
  \A t \in Threads : (pc[t] # "idle" /\ ~(Len(payload[t]) < chunk_size)) =>
    LET ds == SentBy(t) IN
    /\ \A k \in 1..Len(ds) : IsFramed(ds[k]) /\ dg_seq(ds[k]) = k - 1
    /\ \A j, k \in 1..Len(ds) :
         dg_id(ds[j]) = dg_id(ds[k]) /\ dg_pieces(ds[j]) = dg_pieces(ds[k])
    /\ (pc[t] = "done" /\ chunk_size > 0) =>
         Len(ds) = Ceil(Len(payload[t]), chunk_size)

\* a call that returned after dispatching at least three chunks
C4_Witness ==
  /\ pc["t1"] = "done"
  /\ ~(Len(payload["t1"]) < chunk_size)
  /\ Len(SentBy("t1")) >= 3

\* C8: no send call runs with a chunk size that is not positive (such a handler
\* would have been rejected when it was built).
C8_ChunkSizePositive ==
  \A t \in Threads : pc[t] # "idle" => chunk_size > 0

\* C9: with callers interleaved, every chunk datagram carries the id, the piece
\* count and the slice (at its sequence number) of its own caller's instance and
\* payload; each caller's sequence numbers ascend from 0 in dispatch order, and
\* the slices of a caller that returned reassemble to its payload (the chunk
\* size being positive).
C9_ConcurrentChunksIntact ==
  /\ \A i \in 1..Len(dispatched) :
       LET d == dispatched[i].data
           t == dispatched[i].by
       IN ~(Len(payload[t]) < chunk_size) =>
            /\ IsFramed(d)
            /\ dg_id(d) = chunker[t].id
            /\ dg_pieces(d) = UnpackH(chunker[t].pieces)
            /\ dg_body(d) = SliceAt(payload[t], chunk_size, dg_seq(d))
  /\ \A t \in Threads : (pc[t] # "idle" /\ ~(Len(payload[t]) < chunk_size)) =>
       LET ds == SentBy(t) IN
       /\ \A k \in 1..Len(ds) : dg_seq(ds[k]) = k - 1
       /\ (pc[t] = "done" /\ chunk_size > 0) => ConcatBodies(ds) = payload[t]

\* two callers with different payloads and ids, their chunks alternating
C9_Witness ==
  /\ pc["t1"] = "done" /\ pc["t2"] = "done"
  /\ payload["t1"] # payload["t2"]
  /\ chunker["t1"].id # chunker["t2"].id
  /\ Len(dispatched) = 4
  /\ dispatched[1].by = "t1" /\ dispatched[2].by = "t2"
  /\ dispatched[3].by = "t1" /\ dispatched[4].by = "t2"
  /\ IsFramed(dispatched[4].data)

(***************************************************************************)
(* Claims about ChunkedGELF                                                *)
(***************************************************************************)
\* C2: for len(message) > size > 0 an iteration yields ceil(len/size) chunks,
\* chunk i carries message[i*size : i*size+size], only the last may be shorter
\* than size, and the slices in order concatenate to the message.
C2_ChunksSliceAndReassemble ==
  \A i \in 1..Len(runs) :
    LET m == inst.message
        sz == inst.size
        run == runs[i]
    IN (sz > 0 /\ Len(m) > sz) =>
         /\ Len(run) = Ceil(Len(m), sz)
         /\ \A k \in 1..Len(run) :
              /\ dg_body(run[k]) = SliceAt(m, sz, k - 1)
              /\ k < Len(run) => Len(dg_body(run[k])) = sz
         /\ ConcatBodies(run) = m

\* an iteration over a message that is not a multiple of size: the last chunk is shorter
C2_Witness ==
  /\ Len(runs) >= 1
  /\ inst.size > 1
  /\ Len(inst.message) > inst.size
  /\ Len(inst.message) % inst.size # 0
  /\ Len(runs[1]) >= 2
  /\ Len(dg_body(runs[1][Len(runs[1])])) < inst.size

\* C3: the piece count in every chunk header is ceil(len(message)/size), and an
\* iteration yields exactly that many chunks (message not empty, size positive).
C3_PieceCountIsCeil ==
  (cstate = "built" /\ Len(inst.message) > 0 /\ inst.size > 0) =>
    LET n == Ceil(Len(inst.message), inst.size) IN
    /\ UnpackH(inst.pieces) = n
    /\ \A i \in 1..Len(runs) :
         /\ Len(runs[i]) = n
         /\ \A k \in 1..Len(runs[i]) : dg_pieces(runs[i][k]) = n

\* C5: every iteration of one instance that reaches its end has yielded the same
\* encoded chunks, also after an abandoned iteration; an iteration under way has
\* yielded a prefix of them; and all carry the instance's one id and piece count.
C5_IterationRepeatable ==
  cstate = "built" =>
    /\ \A i, j \in 1..Len(runs) : runs[i] = runs[j]
    /\ Len(runs) > 0 =>
         /\ Len(it_out) <= Len(runs[1])
         /\ it_out = SubSeq(runs[1], 1, Len(it_out))
    /\ \A i \in 1..Len(runs) : \A k \in 1..Len(runs[i]) :
         /\ dg_id(runs[i][k]) = inst.id
         /\ dg_pieces(runs[i][k]) = UnpackH(inst.pieces)

\* two complete iterations of several chunks, one generator abandoned in between
C5_Witness ==
  /\ Len(runs) = 2
  /\ partial
  /\ Len(runs[1]) >= 2

(***************************************************************************)
(* Claims about make_message_dict                                          *)
(***************************************************************************)
\* C6: the returned dict holds `_`+k with the attribute's own value for every
\* attribute k that is neither in the skip-list nor starts with `_`, and holds
\* no key `_`+k for any other attribute k.
C6_PromotedIffNotSkipped ==
  mphase = "built" =>
    \A k \in DOMAIN record :
      IF k \notin skip_list /\ Head(k) # "_"
      THEN ("_" \o k) \in DOMAIN message_dict /\ message_dict["_" \o k] = record[k]
      ELSE ("_" \o k) \notin DOMAIN message_dict

\* the record of the example: foo is promoted, args and _internal are not
C6_Witness ==
  /\ mphase = "built"
  /\ {"foo", "args", "_internal"} \subseteq DOMAIN record
  /\ "_foo" \in DOMAIN message_dict /\ message_dict["_foo"] = record["foo"]
  /\ "_args" \notin DOMAIN message_dict
  /\ "__internal" \notin DOMAIN message_dict

\* C7: the level of the returned dict is 2, 3, 4, 6, 7 for CRITICAL (50),
\* ERROR (40), WARNING (30), INFO (20), DEBUG (10), and the record's level
\* number itself for every other level.
C7_LevelTable ==
  mphase = "built" =>
    LET lv == record["levelno"] IN
    /\ lv = 50 => message_dict["level"] = 2
    /\ lv = 40 => message_dict["level"] = 3
    /\ lv = 30 => message_dict["level"] = 4
    /\ lv = 20 => message_dict["level"] = 6
    /\ lv = 10 => message_dict["level"] = 7
    /\ lv \notin {50, 40, 30, 20, 10} => message_dict["level"] = lv

\* a level outside the table passed through
C7_Witness ==
  /\ mphase = "built"
  /\ record["levelno"] = 25
  /\ message_dict["level"] = 25

\* C10: whatever other attributes the record carries, _function, _pid,
\* _thread_name and _process_name of the returned dict are the record's funcName,
\* process, threadName and processName.
C10_FixedFieldsKept ==
  mphase = "built" =>
    /\ message_dict["_function"] = record["funcName"]
    /\ message_dict["_pid"] = record["process"]
    /\ message_dict["_thread_name"] = record["threadName"]
    /\ "processName" \in DOMAIN record => message_dict["_process_name"] = record["processName"]

====
